---------------------------- MODULE Spec2Model ----------------------------
(***************************************************************************)
(* QuickClip icon generator (generate_icon.py).                            *)
(*                                                                         *)
(* Two specifications share this module:                                   *)
(*   Spec        main() and the __main__ guard: the loop over the size     *)
(*               table, the console, the output directory, the catch-all.  *)
(*   SpecRender  create_icon(size) taken one drawing step at a time, for   *)
(*               every size of the table.                                  *)
(*                                                                         *)
(* Arithmetic.  The program computes int(n * 0.65) and the like in binary  *)
(* floating point.  Every such product is modelled by the exact quotient   *)
(* (n * 65) \div 100; for the seven sizes of the table the two agree at    *)
(* every place the program truncates (all operands are non-negative, so    *)
(* int() is the floor).  The one coordinate the program leaves fractional, *)
(* the right edge of the third line, is kept doubled (x1_2 = 2 * x1), and  *)
(* so is every other right edge, to keep one record shape.                 *)
(***************************************************************************)
EXTENDS Integers, Sequences, FiniteSets

VARIABLES
    pc,         \* position of the process in __main__ / main()
    run,        \* how many times the program has been started
    idx,        \* position of the for loop in the size table (1-based)
    icon,       \* <<>> or <<img>>: the image create_icon returned, not yet released
    fs,         \* the output directory: file name -> <<>> (absent) or <<content>>
    events,     \* what this run printed and wrote, in order
    exit_code,  \* -1 while running, the process's exit status afterwards
    snaps,      \* the directory as each completed run left it
    rpc,        \* SpecRender: position inside create_icon
    rsize,      \* SpecRender: the argument of create_icon
    ry,         \* SpecRender: the gradient loop's y
    img         \* SpecRender: <<>> or <<the image under construction>>

vars == <<pc, run, idx, icon, fs, events, exit_code, snaps, rpc, rsize, ry, img>>
mainVars == <<pc, run, idx, icon, fs, events, exit_code, snaps>>
renderVars == <<rpc, rsize, ry, img>>

\* How many times the program is started in one behaviour.
MaxRuns == 2

Max(a, b) == IF a >= b THEN a ELSE b

(***************************************************************************)
(* The size table of main(): an ordered mapping, file name -> pixels.      *)
(***************************************************************************)
Names ==
    << "icon_16x16.png", "icon_16x16@2x.png", "icon_32x32.png",
       "icon_32x32@2x.png", "icon_128x128.png", "icon_128x128@2x.png",
       "icon_256x256.png", "icon_256x256@2x.png", "icon_512x512.png",
       "icon_512x512@2x.png" >>

Sizes == << 16, 32, 32, 64, 128, 256, 256, 512, 512, 1024 >>

TableLen == Len(Names)

DeclaredSizes == { Sizes[i] : i \in 1..Len(Sizes) }

NameSet == { Names[i] : i \in 1..TableLen }

\* size / 512 is kept as the fraction size / ScaleBase.
ScaleBase == 512

(***************************************************************************)
(* create_icon: the background gradient.                                   *)
(***************************************************************************)
GradientRed(size, y) == (50 * size + (140 - 50) * y) \div size

GradientGreen(size, y) == (130 * size - (130 - 90) * y) \div size

GradientBlueWrong(size, y) == (230 * size + (255 - 230) * y) \div size

GradientBlue(size, y) == (255 * size - (255 - 230) * y) \div size

GradientRow(size, y) ==
    [r |-> GradientRed(size, y), g |-> GradientGreen(size, y),
     b |-> GradientBlue(size, y)]

\* draw.rectangle([0, y, size, y+1]): the box is inclusive, so one call
\* paints rows y and y+1 (where they exist) in the colour of row y.
PaintedRows(size, y) == { yy \in {y, y + 1} : yy < size }

(***************************************************************************)
(* The drawing library's shapes.  A box [x0, y0, x1, y1] includes both of  *)
(* its corners.  A rounded rectangle of radius r replaces each corner by a *)
(* quarter disc of radius r whose centre lies r inside the corner; a pixel *)
(* of a corner square belongs to the shape when it is within r of that     *)
(* centre.  x1_2 is twice the right edge.                                  *)
(***************************************************************************)
InBox(x, y, x0, y0, x1_2, y1) ==
    /\ x0 <= x /\ 2 * x <= x1_2
    /\ y0 <= y /\ y <= y1

Sq(n) == n * n

InRoundedRect(x, y, x0, y0, x1, y1, r) ==
    /\ InBox(x, y, x0, y0, 2 * x1, y1)
    /\ LET ax == IF x < x0 + r THEN x0 + r ELSE IF x > x1 - r THEN x1 - r ELSE x
           ay == IF y < y0 + r THEN y0 + r ELSE IF y > y1 - r THEN y1 - r ELSE y
       IN  (ax # x /\ ay # y) => Sq(x - ax) + Sq(y - ay) <= Sq(r)

Corners(size) ==
    { <<0, 0>>, <<size - 1, 0>>, <<0, size - 1>>, <<size - 1, size - 1>> }

(***************************************************************************)
(* create_icon: geometry, under the program's names.                       *)
(***************************************************************************)
corner_radius(size) == (size * 18) \div 100

clipboard_size(size) == (size * 65) \div 100

clipboard_x(size) == (size - clipboard_size(size)) \div 2

clipboard_y(size) == (size * 20) \div 100

clip_width(size) == (clipboard_size(size) * 35) \div 100

clip_height(size) == (clipboard_size(size) * 12) \div 100

clip_x(size) ==
    clipboard_x(size) + (clipboard_size(size) - clip_width(size)) \div 2

clip_y_overlap30(size) ==
    clipboard_y(size) - (clip_height(size) - (clip_height(size) * 3) \div 10)

clip_y(size) == clipboard_y(size) - (clip_height(size) * 3) \div 10

ClipOutlineWidthRounded(size) == Max(1, (size * 3 + ScaleBase) \div (2 * ScaleBase))

ClipOutlineWidth(size) == Max(1, (size * 3) \div (2 * ScaleBase))

BodyOutlineWidth(size) == Max(2, (size * 3) \div ScaleBase)

line_padding(size) == (clipboard_size(size) * 20) \div 100

line_y_start(size) == clipboard_y(size) + (clipboard_size(size) * 25) \div 100

line_spacing(size) == (clipboard_size(size) * 18) \div 100

line_width_nofloor(size) == (size * 5) \div ScaleBase

line_width(size) == Max(2, (size * 5) \div ScaleBase)

(***************************************************************************)
(* create_icon: the five rounded_rectangle calls, by their arguments.      *)
(***************************************************************************)
ClipOp(size) ==
    [op |-> "clip",
     x0 |-> clip_x(size), y0 |-> clip_y(size),
     x1_2 |-> 2 * (clip_x(size) + clip_width(size)),
     y1 |-> clip_y(size) + clip_height(size),
     radius |-> (clip_height(size) * 4) \div 10,
     alpha |-> 255,
     width |-> ClipOutlineWidth(size)]

BodyOp(size) ==
    [op |-> "body",
     x0 |-> clipboard_x(size), y0 |-> clipboard_y(size),
     x1_2 |-> 2 * (clipboard_x(size) + clipboard_size(size)),
     y1 |-> clipboard_y(size) + clipboard_size(size),
     radius |-> (clipboard_size(size) * 10) \div 100,
     alpha |-> 250,
     width |-> BodyOutlineWidth(size)]

\* The right edge of line n is clipboard_x + clipboard_size - line_padding * m
\* with m = 1, 2, 2.5; LineInset2(size, n) is 2 * line_padding * m.
LineInset2Equal(size, n) ==
    IF n = 3 THEN 2 * line_padding(size) + (clipboard_size(size) * 10) \div 100
    ELSE 2 * line_padding(size)

LineInset2(size, n) ==
    IF n = 1 THEN 2 * line_padding(size)
    ELSE IF n = 2 THEN 4 * line_padding(size)
    ELSE 5 * line_padding(size)

LineOp(size, n) ==
    [op |-> IF n = 1 THEN "line1" ELSE IF n = 2 THEN "line2" ELSE "line3",
     x0 |-> clipboard_x(size) + line_padding(size),
     y0 |-> line_y_start(size) + line_spacing(size) * (n - 1),
     x1_2 |-> 2 * (clipboard_x(size) + clipboard_size(size)) - LineInset2(size, n),
     y1 |-> line_y_start(size) + line_spacing(size) * (n - 1) + line_width(size),
     radius |-> line_width(size) \div 2,
     alpha |-> 255,
     width |-> 0]

(***************************************************************************)
(* create_icon: the image.  rows is the colour of each pixel row as the    *)
(* gradient left it, alpha the alpha of the four corner pixels, ops the    *)
(* shapes drawn on top so far.                                             *)
(***************************************************************************)
NewImageTall(size) ==
    [width |-> size, height |-> size + 1,
     rows |-> [y \in 0..(size - 1) |-> [r |-> 0, g |-> 0, b |-> 0]],
     alpha |-> [c \in Corners(size) |-> 0],
     ops |-> <<>>]

NewImage(size) ==
    [width |-> size, height |-> size,
     rows |-> [y \in 0..(size - 1) |-> [r |-> 0, g |-> 0, b |-> 0]],
     alpha |-> [c \in Corners(size) |-> 0],
     ops |-> <<>>]

\* One pass of the gradient loop.
DrawGradientRow(im, size, y) ==
    [im EXCEPT
       !.rows = [yy \in DOMAIN im.rows |->
                   IF yy \in PaintedRows(size, y) THEN GradientRow(size, y)
                   ELSE im.rows[yy]],
       !.alpha = [c \in DOMAIN im.alpha |->
                   IF c[2] \in PaintedRows(size, y) THEN 255 ELSE im.alpha[c]]]

\* mask_draw.rounded_rectangle([0, 0, size, size], corner_radius, fill=255)
\* on a mask of zeros, then img.putalpha(mask).
MaskAlpha(size, x, y) ==
    IF InRoundedRect(x, y, 0, 0, size, size, corner_radius(size)) THEN 255 ELSE 0

PutAlpha(im, size) ==
    [im EXCEPT !.alpha = [c \in DOMAIN im.alpha |-> MaskAlpha(size, c[1], c[2])]]

\* A shape drawn on the RGBA image replaces the pixels it touches, alpha
\* included; it touches no pixel outside its box.
DrawShape(im, o) ==
    [im EXCEPT
       !.ops = Append(im.ops, o),
       !.alpha = [c \in DOMAIN im.alpha |->
                   IF InBox(c[1], c[2], o.x0, o.y0, o.x1_2, o.y1) THEN o.alpha
                   ELSE im.alpha[c]]]

Gradient(im, size) ==
    [im EXCEPT
       !.rows = [yy \in DOMAIN im.rows |-> GradientRow(size, yy)],
       !.alpha = [c \in DOMAIN im.alpha |-> 255]]

create_icon(size) ==
    DrawShape(DrawShape(DrawShape(DrawShape(DrawShape(
        PutAlpha(Gradient(NewImage(size), size), size),
        ClipOp(size)), BodyOp(size)),
        LineOp(size, 1)), LineOp(size, 2)), LineOp(size, 3))

(***************************************************************************)
(* The output directory.  A file is <<>> when absent and <<content>> when  *)
(* present.  The directory holds the ten icons and the catalog's own       *)
(* index, which the program never names.                                   *)
(***************************************************************************)
Other == "Contents.json"

EmptyDir == [n \in NameSet \cup {Other} |-> IF n = Other THEN <<"catalog">> ELSE <<>>]

\* Icons an older table wrote: every name holds an image of another size.
StaleDir ==
    [n \in NameSet \cup {Other} |->
       IF n = Other THEN <<"catalog">>
       ELSE LET i == CHOOSE j \in 1..TableLen : Names[j] = n
            IN  <<create_icon(Sizes[TableLen + 1 - i])>>]

\* What a run that stopped after its fifth file left behind.
PartialDir ==
    [n \in NameSet \cup {Other} |->
       IF n = Other THEN <<"catalog">>
       ELSE LET i == CHOOSE j \in 1..TableLen : Names[j] = n
            IN  IF 2 * i <= TableLen THEN <<create_icon(Sizes[i])>> ELSE <<>>]

InitialContents == {EmptyDir, StaleDir, PartialDir}

\* icon.save(path, 'PNG') opens the path for writing: what was there is replaced.
SavedContentKeepOld(old, im) == IF old = <<>> THEN <<im>> ELSE old

SavedContent(old, im) == <<im>>

(***************************************************************************)
(* main() and the __main__ guard.                                          *)
(***************************************************************************)
Console(line) == <<"print", line>>

LoopDoneEarly == idx >= TableLen

LoopDone == idx > TableLen

\* An exception raised inside main() leaves the loop and main() at once and
\* reaches the except clause of the guard.
RaiseSwallowedInLoop(e) ==
    /\ pc' = "progress"
    /\ idx' = idx + 1
    /\ events' = Append(events, <<"raise", e>>)

Raise(e) ==
    /\ pc' = "except"
    /\ idx' = idx
    /\ events' = Append(events, <<"raise", e>>)

Init ==
    /\ pc = "main"
    /\ run = 1
    /\ idx = 1
    /\ icon = <<>>
    /\ fs \in InitialContents
    /\ events = <<>>
    /\ exit_code = -1
    /\ snaps = <<>>
    /\ rpc = "idle" /\ rsize = 0 /\ ry = 0 /\ img = <<>>

\* main(), up to the loop: the opening line.
Start ==
    /\ pc = "main"
    /\ events' = Append(events, Console("start"))
    /\ idx' = 1
    /\ pc' = "progress"
    /\ UNCHANGED <<run, icon, fs, exit_code, snaps>>
    /\ UNCHANGED renderVars

\* The loop body's print.
Progress ==
    /\ pc = "progress"
    /\ ~LoopDone
    /\ events' = Append(events, <<"progress", Names[idx]>>)
    /\ pc' = "render"
    /\ UNCHANGED <<run, idx, icon, fs, exit_code, snaps>>
    /\ UNCHANGED renderVars

\* icon = create_icon(size)
Render ==
    /\ pc = "render"
    /\ icon' = <<create_icon(Sizes[idx])>>
    /\ events' = Append(events, <<"render", Names[idx]>>)
    /\ pc' = "save"
    /\ UNCHANGED <<run, idx, fs, exit_code, snaps>>
    /\ UNCHANGED renderVars

\* create_icon raises (the library cannot allocate or draw).
RenderFails ==
    /\ pc = "render"
    /\ Raise("render failed")
    /\ UNCHANGED <<run, icon, fs, exit_code, snaps>>
    /\ UNCHANGED renderVars

\* icon.save(...) succeeds; the loop moves to the next entry.
Save ==
    /\ pc = "save"
    /\ fs' = [fs EXCEPT ![Names[idx]] = SavedContent(@, icon[1])]
    /\ events' = Append(events, <<"write", Names[idx]>>)
    /\ idx' = idx + 1
    /\ pc' = "progress"
    /\ UNCHANGED <<run, icon, exit_code, snaps>>
    /\ UNCHANGED renderVars

\* icon.save(...) raises (no directory, no permission); nothing is written.
SaveFails ==
    /\ pc = "save"
    /\ Raise("write failed")
    /\ UNCHANGED <<run, icon, fs, exit_code, snaps>>
    /\ UNCHANGED renderVars

\* After the loop: the three closing lines, and main() returns.
Summary ==
    /\ pc = "progress"
    /\ LoopDone
    /\ events' = events \o <<Console("done"), Console("location"), Console("reopen")>>
    /\ snaps' = Append(snaps, fs)
    /\ pc' = "return"
    /\ UNCHANGED <<run, idx, icon, fs, exit_code>>
    /\ UNCHANGED renderVars

\* except Exception as e: the diagnostic and the hint.
Except ==
    /\ pc = "except"
    /\ events' = events \o << <<"error", events[Len(events)][2]>>, Console("hint") >>
    /\ pc' = "return"
    /\ UNCHANGED <<run, idx, icon, fs, exit_code, snaps>>
    /\ UNCHANGED renderVars

\* The end of the script: the interpreter exits with status 0.
Exit ==
    /\ pc = "return"
    /\ exit_code' = 0
    /\ pc' = "exit"
    /\ UNCHANGED <<run, idx, icon, fs, events, snaps>>
    /\ UNCHANGED renderVars

\* The program is started again on the directory the last run left.
Rerun ==
    /\ pc = "exit"
    /\ run < MaxRuns
    /\ run' = run + 1
    /\ pc' = "main"
    /\ idx' = 1
    /\ icon' = <<>>
    /\ events' = <<>>
    /\ exit_code' = -1
    /\ UNCHANGED <<fs, snaps>>
    /\ UNCHANGED renderVars

Next ==
    \/ Start
    \/ Progress
    \/ Render
    \/ RenderFails
    \/ Save
    \/ SaveFails
    \/ Summary
    \/ Except
    \/ Exit
    \/ Rerun

Spec == Init /\ [][Next]_vars

(***************************************************************************)
(* create_icon(size), one drawing step at a time.                          *)
(***************************************************************************)
InitRender ==
    /\ rpc = "new"
    /\ rsize \in DeclaredSizes
    /\ ry = 0
    /\ img = <<>>
    /\ pc = "idle" /\ run = 0 /\ idx = 0 /\ icon = <<>> /\ fs = EmptyDir
    /\ events = <<>> /\ exit_code = -1 /\ snaps = <<>>

\* img = Image.new('RGBA', (size, size), (0, 0, 0, 0))
RNew ==
    /\ rpc = "new"
    /\ img' = <<NewImage(rsize)>>
    /\ ry' = 0
    /\ rpc' = "gradient"
    /\ UNCHANGED rsize
    /\ UNCHANGED mainVars

\* One pass of: for y in range(size)
RGradientRow ==
    /\ rpc = "gradient"
    /\ ry < rsize
    /\ img' = <<DrawGradientRow(img[1], rsize, ry)>>
    /\ ry' = ry + 1
    /\ UNCHANGED <<rpc, rsize>>
    /\ UNCHANGED mainVars

\* The loop is over: the mask is drawn and becomes the alpha channel.
RMask ==
    /\ rpc = "gradient"
    /\ ry = rsize
    /\ img' = <<PutAlpha(img[1], rsize)>>
    /\ rpc' = "clip"
    /\ UNCHANGED <<rsize, ry>>
    /\ UNCHANGED mainVars

RClip ==
    /\ rpc = "clip"
    /\ img' = <<DrawShape(img[1], ClipOp(rsize))>>
    /\ rpc' = "body"
    /\ UNCHANGED <<rsize, ry>>
    /\ UNCHANGED mainVars

RBody ==
    /\ rpc = "body"
    /\ img' = <<DrawShape(img[1], BodyOp(rsize))>>
    /\ rpc' = "line1"
    /\ UNCHANGED <<rsize, ry>>
    /\ UNCHANGED mainVars

RLine(n) ==
    /\ rpc = (IF n = 1 THEN "line1" ELSE IF n = 2 THEN "line2" ELSE "line3")
    /\ img' = <<DrawShape(img[1], LineOp(rsize, n))>>
    /\ rpc' = (IF n = 1 THEN "line2" ELSE IF n = 2 THEN "line3" ELSE "return")
    /\ UNCHANGED <<rsize, ry>>
    /\ UNCHANGED mainVars

NextRender ==
    \/ RNew
    \/ RGradientRow
    \/ RMask
    \/ RClip
    \/ RBody
    \/ \E n \in 1..3 : RLine(n)

SpecRender == InitRender /\ [][NextRender]_vars

\* The step-by-step rendering returns what create_icon denotes.
RenderAgrees == rpc = "return" => img[1] = create_icon(rsize)

(***************************************************************************)
(* Reading the record of a run.                                            *)
(***************************************************************************)
Has(e) == \E i \in 1..Len(events) : events[i] = e

Count(e) == Cardinality({ i \in 1..Len(events) : events[i] = e })

Pos(e) == CHOOSE i \in 1..Len(events) : events[i] = e

Failed == \E i \in 1..Len(events) : events[i][1] = "raise"

RaisedAt == CHOOSE i \in 1..Len(events) : events[i][1] = "raise"

OfKind(k) == SelectSeq(events, LAMBDA e : e[1] = k)

\* The table of names and sizes as the documentation lists it.
Listed ==
    << <<"icon_16x16.png", 16>>, <<"icon_16x16@2x.png", 32>>,
       <<"icon_32x32.png", 32>>, <<"icon_32x32@2x.png", 64>>,
       <<"icon_128x128.png", 128>>, <<"icon_128x128@2x.png", 256>>,
       <<"icon_256x256.png", 256>>, <<"icon_256x256@2x.png", 512>>,
       <<"icon_512x512.png", 512>>, <<"icon_512x512@2x.png", 1024>> >>

(***************************************************************************)
(* C1.  After a run of main() in which nothing fails, the files written    *)
(* are exactly the ten listed names, each written exactly once, and the    *)
(* image under each name is square with the side the table gives it.       *)
(***************************************************************************)
C1_TenFilesOfTableSize ==
    (pc = "exit" /\ ~Failed) =>
        /\ OfKind("write") = [i \in 1..Len(Listed) |-> <<"write", Listed[i][1]>>]
        /\ \A i \in 1..Len(Listed) :
              /\ Count(<<"write", Listed[i][1]>>) = 1
              /\ fs[Listed[i][1]] # <<>>
              /\ fs[Listed[i][1]][1].width = Listed[i][2]
              /\ fs[Listed[i][1]][1].height = Listed[i][2]

C1_Witness ==
    /\ pc = "exit" /\ ~Failed /\ run = 1
    /\ fs["icon_512x512@2x.png"] # <<>>
    /\ fs["icon_512x512@2x.png"][1].width = 1024

(***************************************************************************)
(* C2.  If the render or the write of entry k fails, the files of entries  *)
(* 1..k-1 stay written, no file of entries k..10 is written, nothing is    *)
(* attempted after the failure, the summary is never printed, the          *)
(* diagnostic and the hint are printed once each, and the process ends     *)
(* with status 0.                                                          *)
(***************************************************************************)
C2_FailureStopsTheBatch ==
    Failed =>
        /\ pc \in {"except", "return", "exit"}
        /\ OfKind("write") = [i \in 1..(idx - 1) |-> <<"write", Names[i]>>]
        /\ \A i \in 1..(idx - 1) : fs[Names[i]] = <<create_icon(Sizes[i])>>
        /\ Count(events[RaisedAt]) = 1
        /\ \A i \in (RaisedAt + 1)..Len(events) : events[i][1] \in {"error", "print"}
        /\ ~Has(Console("done"))
        /\ Len(OfKind("render")) <= idx /\ Len(OfKind("progress")) = idx
        /\ pc = "except" => ENABLED Except
        /\ pc = "return" => ENABLED Exit
        /\ pc \in {"return", "exit"} =>
              /\ Len(OfKind("error")) = 1
              /\ Count(Console("hint")) = 1
              /\ events[Len(events)] = Console("hint")
        /\ pc = "exit" => exit_code = 0

C2_Witness ==
    /\ pc = "exit" /\ exit_code = 0
    /\ Has(<<"raise", "write failed">>)
    /\ idx = 6
    /\ Len(OfKind("write")) = 5

(***************************************************************************)
(* C3.  The ten render+write operations happen one after another in table  *)
(* order: the progress line of entry i comes before the write of entry i,  *)
(* which comes before the progress line of entry i+1, and the summary      *)
(* comes only after all ten writes.                                        *)
(***************************************************************************)
C3_StrictlySequential ==
    /\ \A i \in 1..TableLen :
          /\ Count(<<"progress", Names[i]>>) <= 1
          /\ Count(<<"write", Names[i]>>) <= 1
          /\ Has(<<"write", Names[i]>>) =>
                /\ Has(<<"progress", Names[i]>>)
                /\ Pos(<<"progress", Names[i]>>) < Pos(<<"write", Names[i]>>)
          /\ (i < TableLen /\ Has(<<"progress", Names[i + 1]>>)) =>
                /\ Has(<<"write", Names[i]>>)
                /\ Pos(<<"write", Names[i]>>) < Pos(<<"progress", Names[i + 1]>>)
    /\ Has(Console("done")) =>
          \A i \in 1..TableLen :
              /\ Has(<<"write", Names[i]>>)
              /\ Pos(<<"write", Names[i]>>) < Pos(Console("done"))

C3_Witness ==
    /\ Has(Console("done"))
    /\ Len(OfKind("progress")) = 10
    /\ Len(OfKind("write")) = 10

(***************************************************************************)
(* C4.  Running the program again changes nothing: every completed run     *)
(* leaves the same directory as the completed run before it, whatever the  *)
(* directory held at the start, each name holding the image of its table   *)
(* size and the other files untouched.                                     *)
(***************************************************************************)
C4_Idempotent ==
    /\ \A i, j \in 1..Len(snaps) : snaps[i] = snaps[j]
    /\ \A i \in 1..Len(snaps) :
          /\ \A k \in 1..TableLen : snaps[i][Names[k]] = <<create_icon(Sizes[k])>>
          /\ snaps[i][Other] = <<"catalog">>

C4_Witness == Len(snaps) >= 2 /\ pc = "exit" /\ snaps[2] = fs

(***************************************************************************)
(* Reading the image create_icon returns.                                  *)
(***************************************************************************)
Returned == rpc = "return"

Shape(n) == img[1].ops[n]

\* Sizes of the drawn clip and body, read off their boxes.
DrawnClipHeight == Shape(1).y1 - Shape(1).y0

DrawnBodySize == Shape(2).y1 - Shape(2).y0

\* Twice the distance from the right edge of shape n to the body's right edge.
RightInset2(n) == Shape(2).x1_2 - Shape(n).x1_2

LeftInset(n) == Shape(n).x0 - Shape(2).x0

(***************************************************************************)
(* C5.  For every declared size S the four corner pixels (0,0), (S-1,0),   *)
(* (0,S-1), (S-1,S-1) of the returned image have alpha 0.                  *)
(***************************************************************************)
C5_CornersTransparent ==
    Returned => \A c \in Corners(rsize) : img[1].alpha[c] = 0

(***************************************************************************)
(* C6.  For every declared size and all rows y1 < y2 of the returned       *)
(* image, red(y1) <= red(y2) and blue(y1) >= blue(y2); every row's red is  *)
(* in 50..140 and its blue in 230..255.                                    *)
(***************************************************************************)
C6_GradientMonotone ==
    Returned =>
        /\ \A y \in 0..(rsize - 1) :
              /\ img[1].rows[y].r \in 50..140
              /\ img[1].rows[y].b \in 230..255
        /\ \A y1, y2 \in 0..(rsize - 1) :
              y1 < y2 => /\ img[1].rows[y1].r <= img[1].rows[y2].r
                         /\ img[1].rows[y1].b >= img[1].rows[y2].b

C6_Witness ==
    /\ Returned /\ rsize = 1024
    /\ img[1].rows[0].r < img[1].rows[1023].r
    /\ img[1].rows[0].b > img[1].rows[1023].b

(***************************************************************************)
(* C7.  In render(16) the clip outline is exactly 1 wide, the body outline *)
(* exactly 2 and each code line exactly 2 high; for no declared size is    *)
(* any of the three 0.                                                     *)
(***************************************************************************)
C7_StrokeFloors ==
    Returned =>
        /\ Shape(1).width >= 1
        /\ Shape(2).width >= 1
        /\ \A n \in 3..5 : Shape(n).y1 - Shape(n).y0 >= 1
        /\ rsize = 16 =>
              /\ Shape(1).width = 1
              /\ Shape(2).width = 2
              /\ \A n \in 3..5 : Shape(n).y1 - Shape(n).y0 = 2

C7_Witness == Returned /\ rsize = 16 /\ Shape(5).y1 - Shape(5).y0 = 2

(***************************************************************************)
(* C8, as stated.  For every declared size S the clip's outline width is   *)
(* max(1, round(1.5 * S / 512)), round being to the nearest integer.       *)
(***************************************************************************)
C8_OutlineWidthRounded ==
    Returned => Shape(1).width = Max(1, (3 * rsize + 512) \div 1024)

(***************************************************************************)
(* C8, amended.  For every declared size S the clip's outline width is     *)
(* max(1, int(1.5 * S / 512)), int dropping the fraction.                  *)
(***************************************************************************)
C8_OutlineWidthTruncated ==
    Returned => Shape(1).width = Max(1, (3 * rsize) \div 1024)

C8_Witness == Returned /\ rsize = 512 /\ Shape(1).width = 1

(***************************************************************************)
(* C9, as stated.  All three code lines start int(0.20 * clipboard_size)   *)
(* from the body's left edge; the first and the second end that far from   *)
(* its right edge, and the third ends a further 0.05 * clipboard_size to   *)
(* the left (to within a pixel).                                           *)
(***************************************************************************)
C9_TwoLongLinesOneShort ==
    Returned =>
        LET pad == (DrawnBodySize * 20) \div 100
        IN  /\ \A n \in 3..5 : LeftInset(n) = pad
            /\ RightInset2(3) = 2 * pad
            /\ RightInset2(4) = 2 * pad
            /\ RightInset2(5) - 2 * pad \in
                  ((DrawnBodySize \div 10) - 2)..((DrawnBodySize \div 10) + 2)

(***************************************************************************)
(* C9, amended.  All three code lines start int(0.20 * clipboard_size)     *)
(* from the body's left edge; the first ends that far from its right edge, *)
(* the second twice that far and the third two and a half times that far.  *)
(***************************************************************************)
C9_ThreeLengths ==
    Returned =>
        LET pad == (DrawnBodySize * 20) \div 100
        IN  /\ \A n \in 3..5 : LeftInset(n) = pad
            /\ RightInset2(3) = 2 * pad
            /\ RightInset2(4) = 4 * pad
            /\ RightInset2(5) = 5 * pad

C9_Witness ==
    /\ Returned /\ rsize = 256
    /\ RightInset2(4) > RightInset2(3)
    /\ RightInset2(5) > RightInset2(4)
    /\ RightInset2(5) % 2 = 1

(***************************************************************************)
(* C10, as stated.  The clip is horizontally centred on the body (to       *)
(* within a pixel) and overlaps the body's vertical extent by 30% of its   *)
(* own height (to within a pixel), the rest lying above the body's top.    *)
(***************************************************************************)
C10_ClipOverlapsByThirtyPercent ==
    Returned =>
        LET left == Shape(1).x0 - Shape(2).x0
            right2 == RightInset2(1)
            overlap == Shape(1).y1 - Shape(2).y0
        IN  /\ 2 * left <= right2 /\ right2 <= 2 * left + 2
            /\ DrawnClipHeight = (DrawnBodySize * 12) \div 100
            /\ 10 * overlap > 3 * DrawnClipHeight - 10
            /\ 10 * overlap < 3 * DrawnClipHeight + 10

(***************************************************************************)
(* C10, amended.  The clip is horizontally centred on the body to within a *)
(* pixel; its height is int(0.12 * clipboard_size); its top lies           *)
(* int(0.3 * clip_height) above the body's top edge, and the remaining     *)
(* clip_height - int(0.3 * clip_height), at least 70% of its height,       *)
(* overlaps the body's vertical extent.                                    *)
(***************************************************************************)
C10_ClipOverlapsBySeventyPercent ==
    Returned =>
        LET left == Shape(1).x0 - Shape(2).x0
            right2 == RightInset2(1)
            above == Shape(2).y0 - Shape(1).y0
            overlap == Shape(1).y1 - Shape(2).y0
        IN  /\ 2 * left <= right2 /\ right2 <= 2 * left + 2
            /\ DrawnClipHeight = (DrawnBodySize * 12) \div 100
            /\ above = (DrawnClipHeight * 3) \div 10
            /\ overlap = DrawnClipHeight - above
            /\ 10 * overlap >= 7 * DrawnClipHeight

C10_Witness ==
    /\ Returned /\ rsize = 512
    /\ Shape(2).y0 - Shape(1).y0 = 11
    /\ Shape(1).y1 - Shape(2).y0 = 28

=============================================================================
